---- MODULE Spec2Model ----
(***************************************************************************)
(* Batch submission and result reconciliation workflow of the wheat pest   *)
(* and disease detection front end (src/frontend/types.ts, component App). *)
(*                                                                         *)
(* The state is the workflow state of App (selectedFiles, processedFiles,  *)
(* status, error, isDragging), the pending invocations of the async        *)
(* callback handleProcessImages (calls), and the object URLs the document  *)
(* holds (objectUrls).  lastEvent is a history variable: the most recent   *)
(* event delivered to the component together with its input.  modalImage   *)
(* only selects the picture ImageModal shows; no handler of the workflow   *)
(* reads it and it is left out.                                            *)
(*                                                                         *)
(* A user event reaches its handler only when the control that carries the *)
(* handler is in the view renderContent returns for the current status; an *)
(* event aimed at a control that is not rendered changes nothing.          *)
(***************************************************************************)
EXTENDS Integers, Sequences, FiniteSets, TLC

VARIABLES selectedFiles, processedFiles, status, error, isDragging,
          calls, objectUrls, lastEvent

vars == <<selectedFiles, processedFiles, status, error, isDragging,
          calls, objectUrls, lastEvent>>

\* The React state of App without the history variable.
appState == <<selectedFiles, processedFiles, status, error, isDragging,
              calls, objectUrls>>

-----------------------------------------------------------------------------
\* Bounds of the model.

\* Largest number of files one file-input change or drop delivers.
MaxBatch == 2

\* Largest number of object URLs created in one run.
MaxUrls == 2

\* Largest length of the JSON array a response carries.
MaxResults == 2

\* Largest number of pending handleProcessImages calls the model explores.
MaxCalls == 2

-----------------------------------------------------------------------------
\* enum ProcessStatus

IDLE == "IDLE"

PROCESSING == "PROCESSING"

SUCCESS == "SUCCESS"

ERROR == "ERROR"

ProcessStatus == {IDLE, PROCESSING, SUCCESS, ERROR}

\* error: string | null
Null == "<null>"

\* A property that is missing from a parsed JSON object reads as undefined.
Undefined == "<undefined>"

\* String(v) as a template literal applies it: undefined prints "undefined".
Str(v) == IF v = Undefined THEN "undefined" ELSE v

\* String.prototype.startsWith
startsWith(s, prefix) ==
    Len(s) >= Len(prefix) /\ SubSeq(s, 1, Len(prefix)) = prefix

-----------------------------------------------------------------------------
\* Inputs: the files a user can pick or drop.

\* A browser File: name, lastModified, type and size of its content.
File(name, lastModified, type) ==
    [name |-> name, lastModified |-> lastModified, type |-> type, size |-> 1]

\* Two images of the same name (from different folders) and a third one.
ImageFiles == {File("a.png", 1, "image/png"), File("a.png", 2, "image/png"),
               File("b.png", 1, "image/png")}

OtherFiles == {File("notes.txt", 1, "text/plain")}

RawFiles == ImageFiles \cup OtherFiles

RECURSIVE SeqsUpTo(_, _)
SeqsUpTo(S, n) ==
    IF n = 0 THEN {<<>>}
    ELSE LET shorter == SeqsUpTo(S, n - 1)
         IN  shorter \cup {Append(s, x) : s \in {t \in shorter : Len(t) = n - 1}, x \in S}

\* files: FileList | null.  present = FALSE is the null FileList.
FileLists ==
    {[present |-> TRUE, list |-> l] : l \in SeqsUpTo(RawFiles, MaxBatch)}
    \cup {[present |-> FALSE, list |-> <<>>]}

-----------------------------------------------------------------------------
\* Inputs: what the detection service can answer.

ResultNames == {"a.png", "b.png", "z.png"}

\* Well-formed elements of the response array (interface ProcessedImageResponse).
WellFormedItems == [filename : ResultNames, processed_image_b64 : {"AA=="},
                    content_type : {"image/png"}]

\* Elements that lack required properties.
MalformedItems ==
    { [filename |-> Undefined, processed_image_b64 |-> "AA==", content_type |-> "image/png"],
      [filename |-> "a.png", processed_image_b64 |-> Undefined, content_type |-> Undefined] }

ResultItems == WellFormedItems \cup MalformedItems

NoItems == <<>>

\* The body of a response as response.json() sees it: text that is not JSON,
\* the JSON value null, a JSON object (with or without detail), a JSON array.
Bodies ==
    {[kind |-> "text", detail |-> Undefined, items |-> NoItems],
     [kind |-> "null", detail |-> Undefined, items |-> NoItems]}
    \cup {[kind |-> "object", detail |-> d, items |-> NoItems] :
              d \in {"model unavailable", "", Undefined}}
    \cup {[kind |-> "array", detail |-> Undefined, items |-> r] :
              r \in SeqsUpTo(ResultItems, MaxResults)}

NoBody == [kind |-> "none", detail |-> Undefined, items |-> NoItems]

\* The outcome of fetch: it resolves with a Response, or rejects when no
\* response was received (received = FALSE).
Responses ==
    {[received |-> TRUE, status |-> 200, body |-> b] : b \in Bodies}
    \cup {[received |-> TRUE, status |-> 500, body |-> b] :
              b \in {c \in Bodies : c.items = NoItems}}
    \cup {[received |-> FALSE, status |-> 0, body |-> NoBody]}

NoResponse == [received |-> FALSE, status |-> -1, body |-> NoBody]

\* Response.ok
ok(response) == response.status >= 200 /\ response.status <= 299

\* Date.now() as new File(...) reads it.
Clock == {9}

-----------------------------------------------------------------------------
\* History variable values.

\* handled: the control the event aims at was rendered and enabled, so that its
\* handler ran.  from: the status the event found.
Event(kind, handled) ==
    [kind |-> kind, handled |-> handled, from |-> status, files |-> <<>>,
     staged |-> <<>>, response |-> NoResponse]

FilesEvent(kind, handled, files) == [Event(kind, handled) EXCEPT !.files = files.list]

SettleEvent(frame, response) ==
    [Event("fetchSettles", TRUE) EXCEPT !.staged = frame.files, !.response = response]

-----------------------------------------------------------------------------
\* Derived values of App.

isProcessing == status = PROCESSING

\* Mutant: the length test is off by one.
hasFilesSelected_mut == Len(selectedFiles) >= 0

hasFilesSelected == Len(selectedFiles) > 0

\* The view renderContent returns.
renderContent ==
    CASE status = PROCESSING -> "spinner"
      [] status = SUCCESS    -> "results"
      [] OTHER               -> "upload"

\* Mutant: the upload label is rendered in every view.
UploadRendered_mut == TRUE

\* The label with the file input and the drop handlers.
UploadRendered == renderContent = "upload"

\* The "Clear Selection" button.
ClearRendered == renderContent = "upload" /\ hasFilesSelected

\* Mutant: the button is rendered in every view and never disabled.
ProcessEnabled_mut == hasFilesSelected

\* The "Process N Image(s)" button can be clicked: rendered and not disabled.
ProcessEnabled == renderContent = "upload" /\ hasFilesSelected /\ ~isProcessing

\* The "Process More Images" button.
ResetRendered == renderContent = "results"

-----------------------------------------------------------------------------
\* handleFiles

\* id: `${file.name}-${file.lastModified}`
FileId(file) == file.name \o "-" \o ToString(file.lastModified)

\* URL.createObjectURL: the n-th URL the document creates.
createObjectURL(n) == "blob:" \o ToString(n)

\* Mutant: the media type filter is missing.
IsImage_mut(file) == TRUE

IsImage(file) == startsWith(file.type, "image/")

\* Array.from(files).filter(...).map(...), the first URL being number base + 1.
newImageFiles(list, base) ==
    LET images == SelectSeq(list, IsImage)
    IN  [i \in 1..Len(images) |->
            [id |-> FileId(images[i]), file |-> images[i],
             previewUrl |-> createObjectURL(base + i)]]

existingIds(prev) == {prev[i].id : i \in 1..Len(prev)}

\* Mutant: the candidates are not checked against the existing ids.
trulyNewFiles_mut(prev, new) == new

trulyNewFiles(prev, new) ==
    SelectSeq(new, LAMBDA f : f.id \notin existingIds(prev))

handleFiles(files) ==
    IF files.present
    THEN LET new == newImageFiles(files.list, Cardinality(objectUrls))
         IN  /\ selectedFiles' = selectedFiles \o trulyNewFiles(selectedFiles, new)
             /\ objectUrls' = objectUrls \cup {new[i].previewUrl : i \in 1..Len(new)}
    ELSE UNCHANGED <<selectedFiles, objectUrls>>

\* The model explores the additions that keep the run within its bounds.
WithinBounds == Cardinality(objectUrls') <= MaxUrls

-----------------------------------------------------------------------------
Init ==
    /\ selectedFiles = <<>>
    /\ processedFiles = <<>>
    /\ status = IDLE
    /\ error = Null
    /\ isDragging = FALSE
    /\ calls = <<>>
    /\ objectUrls = {}
    /\ lastEvent = Event("init", FALSE)

\* Mutant: adding files also clears the error message.
handleFileChange_mut ==
    \/ /\ UploadRendered
       /\ \E files \in FileLists :
             /\ lastEvent' = FilesEvent("fileChange", TRUE, files)
             /\ handleFiles(files)
             /\ WithinBounds
       /\ error' = Null
       /\ UNCHANGED <<processedFiles, status, isDragging, calls>>
    \/ /\ ~UploadRendered
       /\ lastEvent' = Event("fileChange", FALSE)
       /\ UNCHANGED appState

\* onChange of the file input.
handleFileChange ==
    \/ /\ UploadRendered
       /\ \E files \in FileLists :
             /\ lastEvent' = FilesEvent("fileChange", TRUE, files)
             /\ handleFiles(files)
             /\ WithinBounds
       /\ UNCHANGED <<processedFiles, status, error, isDragging, calls>>
    \/ /\ ~UploadRendered
       /\ lastEvent' = Event("fileChange", FALSE)
       /\ UNCHANGED appState

handleDragOver ==
    /\ UploadRendered
    /\ isDragging' = TRUE
    /\ lastEvent' = Event("dragOver", TRUE)
    /\ UNCHANGED <<selectedFiles, processedFiles, status, error, calls, objectUrls>>

handleDragLeave ==
    /\ UploadRendered
    /\ isDragging' = FALSE
    /\ lastEvent' = Event("dragLeave", TRUE)
    /\ UNCHANGED <<selectedFiles, processedFiles, status, error, calls, objectUrls>>

\* onDrop of the label: the files of event.dataTransfer.
handleDrop ==
    \/ /\ UploadRendered
       /\ isDragging' = FALSE
       /\ \E files \in FileLists :
             /\ lastEvent' = FilesEvent("drop", TRUE, files)
             /\ handleFiles(files)
             /\ WithinBounds
       /\ UNCHANGED <<processedFiles, status, error, calls>>
    \/ /\ ~UploadRendered
       /\ lastEvent' = Event("drop", FALSE)
       /\ UNCHANGED appState

\* onClick of "Clear Selection": setSelectedFiles([]).
clearSelection ==
    /\ lastEvent' = Event("clear", ClearRendered)
    /\ IF ClearRendered
       THEN /\ selectedFiles' = <<>>
            /\ UNCHANGED <<processedFiles, status, error, isDragging, calls, objectUrls>>
       ELSE UNCHANGED appState

\* Mutant: the submission forgets setError(null).
handleProcessImages_mut ==
    /\ Len(calls) < MaxCalls
    /\ lastEvent' = Event("submit", ProcessEnabled)
    /\ IF ProcessEnabled
       THEN IF ~hasFilesSelected
            THEN UNCHANGED appState
            ELSE /\ status' = PROCESSING
                 /\ calls' = Append(calls, [files |-> selectedFiles])
                 /\ UNCHANGED <<selectedFiles, processedFiles, error, isDragging, objectUrls>>
       ELSE UNCHANGED appState

\* onClick of "Process N Image(s)": handleProcessImages up to the await of
\* fetch.  The frame keeps the selectedFiles the callback closed over.
handleProcessImages ==
    /\ Len(calls) < MaxCalls
    /\ lastEvent' = Event("submit", ProcessEnabled)
    /\ IF ProcessEnabled
       THEN IF ~hasFilesSelected
            THEN UNCHANGED appState
            ELSE /\ status' = PROCESSING
                 /\ error' = Null
                 /\ calls' = Append(calls, [files |-> selectedFiles])
                 /\ UNCHANGED <<selectedFiles, processedFiles, isDragging, objectUrls>>
       ELSE UNCHANGED appState

\* Mutant: the reset forgets setSelectedFiles([]).
handleReset_mut ==
    /\ lastEvent' = Event("reset", ResetRendered)
    /\ IF ResetRendered
       THEN /\ processedFiles' = <<>>
            /\ status' = IDLE
            /\ error' = Null
            /\ UNCHANGED <<selectedFiles, isDragging, calls, objectUrls>>
       ELSE UNCHANGED appState

\* Mutant: the reset forgets setProcessedFiles([]).
handleReset_keepResults ==
    /\ lastEvent' = Event("reset", ResetRendered)
    /\ IF ResetRendered
       THEN /\ selectedFiles' = <<>>
            /\ status' = IDLE
            /\ error' = Null
            /\ UNCHANGED <<processedFiles, isDragging, calls, objectUrls>>
       ELSE UNCHANGED appState

\* onClick of "Process More Images".
handleReset ==
    /\ lastEvent' = Event("reset", ResetRendered)
    /\ IF ResetRendered
       THEN /\ selectedFiles' = <<>>
            /\ processedFiles' = <<>>
            /\ status' = IDLE
            /\ error' = Null
            /\ UNCHANGED <<isDragging, calls, objectUrls>>
       ELSE UNCHANGED appState

-----------------------------------------------------------------------------
\* handleProcessImages after fetch settles.

\* JavaScript truthiness of a string-or-undefined value.
Truthy(v) == v /= Undefined /\ v /= ""

\* Messages of the errors the engine itself throws.
FetchFailedMessage == "Failed to fetch"

JsonSyntaxMessage == "Unexpected token in JSON"

NullPropertyMessage == "Cannot read properties of null"

NotAFunctionMessage == "processedData.map is not a function"

\* Mutant: the detail of the error body is ignored.
ServiceErrorMessage_mut(response) ==
    "Server responded with status: " \o ToString(response.status)

\* Mutant: response.json() has no catch, so its SyntaxError is what is thrown.
ServiceErrorMessage_noCatch(response) ==
    IF response.body.kind = "text"
    THEN JsonSyntaxMessage
    ELSE IF response.body.kind = "null"
         THEN NullPropertyMessage
         ELSE IF Truthy(response.body.detail)
              THEN response.body.detail
              ELSE "Server responded with status: " \o ToString(response.status)

\* The message of the Error thrown when !response.ok.
ServiceErrorMessage(response) ==
    LET errorData == IF response.body.kind = "text"
                     THEN [detail |-> "An unknown error occurred on the server."]
                     ELSE [detail |-> response.body.detail]
    IN  IF response.body.kind = "null"
        THEN NullPropertyMessage
        ELSE IF Truthy(errorData.detail)
             THEN errorData.detail
             ELSE "Server responded with status: " \o ToString(response.status)

\* Mutant: the last match instead of the first.
findIndex_mut(staged, filename) ==
    IF \E i \in 1..Len(staged) : staged[i].file.name = filename
    THEN CHOOSE i \in 1..Len(staged) :
            /\ staged[i].file.name = filename
            /\ \A j \in (i + 1)..Len(staged) : staged[j].file.name /= filename
    ELSE 0

\* selectedFiles.find((f) => f.file.name === item.filename): the index of the
\* first match, 0 when nothing matches.
findIndex(staged, filename) ==
    IF \E i \in 1..Len(staged) : staged[i].file.name = filename
    THEN CHOOSE i \in 1..Len(staged) :
            /\ staged[i].file.name = filename
            /\ \A j \in 1..(i - 1) : staged[j].file.name /= filename
    ELSE 0

\* new File([], filename)
EmptyFile(filename, now) ==
    [name |-> Str(filename), lastModified |-> now, type |-> "", size |-> 0]

\* Mutant: the data URI lacks the base64 marker.
dataUrl_mut(item) ==
    "data:" \o Str(item.content_type) \o "," \o Str(item.processed_image_b64)

\* previewUrl: `data:${item.content_type};base64,${item.processed_image_b64}`
dataUrl(item) ==
    "data:" \o Str(item.content_type) \o ";base64," \o Str(item.processed_image_b64)

\* The element processedData.map builds for item at (0-based) index.
processedEntry(staged, item, index, now) ==
    LET k == findIndex(staged, item.filename)
    IN  [id |-> IF k /= 0 THEN staged[k].id
                ELSE Str(item.filename) \o "-" \o ToString(index),
         file |-> IF k /= 0 THEN staged[k].file ELSE EmptyFile(item.filename, now),
         previewUrl |-> dataUrl(item)]

\* Mutant: results that match no staged file are skipped.
newProcessedFiles_mut(staged, processedData, now) ==
    LET matched == SelectSeq(processedData, LAMBDA item : findIndex(staged, item.filename) /= 0)
    IN  [i \in 1..Len(matched) |-> processedEntry(staged, matched[i], i - 1, now)]

newProcessedFiles(staged, processedData, now) ==
    [i \in 1..Len(processedData) |-> processedEntry(staged, processedData[i], i - 1, now)]

\* What the try block ends with: thrown (with the message) or not.
Outcome(response) ==
    IF ~response.received
    THEN [thrown |-> TRUE, message |-> FetchFailedMessage]
    ELSE IF ~ok(response)
    THEN [thrown |-> TRUE, message |-> ServiceErrorMessage(response)]
    ELSE CASE response.body.kind = "text"   -> [thrown |-> TRUE, message |-> JsonSyntaxMessage]
           [] response.body.kind = "null"   -> [thrown |-> TRUE, message |-> NullPropertyMessage]
           [] response.body.kind = "object" -> [thrown |-> TRUE, message |-> NotAFunctionMessage]
           [] OTHER                         -> [thrown |-> FALSE, message |-> ""]

RemoveAt(s, i) == SubSeq(s, 1, i - 1) \o SubSeq(s, i + 1, Len(s))

\* Mutant: the catch block stores the message but forgets setStatus(ERROR).
fetchSettles_mut ==
    \E i \in 1..Len(calls), response \in Responses, now \in Clock :
        LET frame == calls[i]
            out   == Outcome(response)
        IN  /\ calls' = RemoveAt(calls, i)
            /\ lastEvent' = SettleEvent(frame, response)
            /\ IF out.thrown
               THEN /\ error' = out.message
                    /\ UNCHANGED <<status, processedFiles>>
               ELSE /\ processedFiles' = newProcessedFiles(frame.files, response.body.items, now)
                    /\ status' = SUCCESS
                    /\ UNCHANGED error
            /\ UNCHANGED <<selectedFiles, isDragging, objectUrls>>

\* fetch settles for a pending call and the callback runs to its end.
fetchSettles ==
    \E i \in 1..Len(calls), response \in Responses, now \in Clock :
        LET frame == calls[i]
            out   == Outcome(response)
        IN  /\ calls' = RemoveAt(calls, i)
            /\ lastEvent' = SettleEvent(frame, response)
            /\ IF out.thrown
               THEN /\ error' = out.message
                    /\ status' = ERROR
                    /\ UNCHANGED processedFiles
               ELSE /\ processedFiles' = newProcessedFiles(frame.files, response.body.items, now)
                    /\ status' = SUCCESS
                    /\ UNCHANGED error
            /\ UNCHANGED <<selectedFiles, isDragging, objectUrls>>

-----------------------------------------------------------------------------
Next ==
    \/ handleFileChange
    \/ handleDragOver
    \/ handleDragLeave
    \/ handleDrop
    \/ clearSelection
    \/ handleProcessImages
    \/ handleReset
    \/ fetchSettles

Spec == Init /\ [][Next]_vars

\* The service answers every request, or the request fails: a pending call is
\* eventually resumed.
FairSpec == Spec /\ WF_vars(fetchSettles)

-----------------------------------------------------------------------------
\* Properties.

\* The event kinds that run handleFiles.
IsAddFiles(e) == e.kind \in {"fileChange", "drop"}

\* The declared media type of f begins with image/.
HasImageType(f) == Len(f.type) >= 6 /\ SubSeq(f.type, 1, 6) = "image/"

\* A success response whose body is an array of complete result objects.
IsWellFormedSuccess(r) ==
    /\ r.received
    /\ r.status >= 200 /\ r.status <= 299
    /\ r.body.kind = "array"
    /\ \A i \in 1..Len(r.body.items) :
          /\ r.body.items[i].filename /= Undefined
          /\ r.body.items[i].processed_image_b64 /= Undefined
          /\ r.body.items[i].content_type /= Undefined

\* C1 (as stated): in every reachable state no two entries of selectedFiles
\* share the same id.
C1_UniqueIds ==
    \A i, j \in 1..Len(selectedFiles) :
        i /= j => selectedFiles[i].id /= selectedFiles[j].id

\* C2: a submit issued while selectedFiles is empty changes nothing (status,
\* error, selectedFiles, processedFiles, pending calls), and no step from Idle
\* with an empty selectedFiles reaches Processing.
C2_EmptySubmitChangesNothing ==
    [][ /\ (lastEvent'.kind = "submit" /\ Len(selectedFiles) = 0) => UNCHANGED appState
        /\ (status = IDLE /\ Len(selectedFiles) = 0) => status' /= PROCESSING ]_vars

C2_Witness ==
    /\ lastEvent.kind = "submit"
    /\ selectedFiles = <<>>
    /\ status = IDLE
    /\ calls = <<>>

\* C3: a submit issued while the status is Processing changes nothing; at most
\* one call is pending, one is pending exactly while the status is Processing,
\* and Processing is left only by the completion of that one call.
C3_SingleSubmissionInFlight ==
    /\ [](Len(calls) <= 1 /\ (status = PROCESSING <=> Len(calls) = 1))
    /\ [][ /\ (lastEvent'.kind = "submit" /\ status = PROCESSING) => UNCHANGED appState
           /\ (status = PROCESSING /\ status' /= PROCESSING) =>
                 (lastEvent'.kind = "fetchSettles" /\ calls' = <<>>)
           /\ lastEvent'.kind = "fetchSettles" =>
                 (status = PROCESSING /\ status' \in {SUCCESS, ERROR}) ]_vars

C3_Witness ==
    /\ lastEvent.kind = "submit"
    /\ ~lastEvent.handled
    /\ status = PROCESSING
    /\ Len(calls) = 1

\* C4 (as stated): a reset issued in Success or in Error leads to Idle with
\* empty selectedFiles, empty processedFiles and no error message.
C4_ResetFromSuccessOrError ==
    [][ (lastEvent'.kind = "reset" /\ status \in {SUCCESS, ERROR}) =>
            /\ status' = IDLE
            /\ selectedFiles' = <<>>
            /\ processedFiles' = <<>>
            /\ error' = Null ]_vars

\* C4 (amended): a reset issued in Success leads to Idle with empty
\* selectedFiles, empty processedFiles and no error message; in every other
\* status, Error included, no reset control exists and a reset changes nothing.
C4_ResetOnlyFromSuccess ==
    [][ lastEvent'.kind = "reset" =>
            IF status = SUCCESS
            THEN /\ status' = IDLE
                 /\ selectedFiles' = <<>>
                 /\ processedFiles' = <<>>
                 /\ error' = Null
            ELSE UNCHANGED appState ]_vars

C4_Witness ==
    /\ lastEvent.kind = "reset"
    /\ lastEvent.handled
    /\ status = IDLE
    /\ selectedFiles = <<>>
    /\ processedFiles = <<>>
    /\ objectUrls /= {}

\* C5: when the pending submission completes with a non-success HTTP status
\* and a JSON object body whose detail is a non-empty string m, the status goes
\* from Processing to Error and the error message is m.
C5_ServiceDetailIsTheMessage ==
    [][ LET r == lastEvent'.response
        IN  ( /\ lastEvent'.kind = "fetchSettles"
              /\ r.received
              /\ (r.status < 200 \/ r.status > 299)
              /\ r.body.kind = "object"
              /\ r.body.detail \notin {Undefined, ""} ) =>
                ( /\ status = PROCESSING
                  /\ status' = ERROR
                  /\ error' = r.body.detail ) ]_vars

C5_Witness ==
    /\ lastEvent.kind = "fetchSettles"
    /\ lastEvent.response.status = 500
    /\ lastEvent.response.body.detail = "model unavailable"
    /\ status = ERROR
    /\ error = "model unavailable"

\* C6: when the pending submission completes with a success HTTP status and a
\* well-formed array R, the status goes from Processing to Success, the call
\* reconciles against the selectedFiles that were submitted, and processedFiles
\* has one entry per result whose previewUrl is
\* 'data:' + content_type + ';base64,' + processed_image_b64.
C6_SuccessStoresDataUrls ==
    [][ LET r == lastEvent'.response
            R == r.body.items
        IN  (lastEvent'.kind = "fetchSettles" /\ IsWellFormedSuccess(r)) =>
                /\ status = PROCESSING
                /\ status' = SUCCESS
                /\ lastEvent'.staged = selectedFiles
                /\ Len(processedFiles') = Len(R)
                /\ \A i \in 1..Len(R) :
                      processedFiles'[i].previewUrl =
                          "data:" \o R[i].content_type \o ";base64," \o R[i].processed_image_b64 ]_vars

C6_Witness ==
    /\ lastEvent.kind = "fetchSettles"
    /\ lastEvent.response.status = 200
    /\ Len(lastEvent.response.body.items) = 1
    /\ lastEvent.response.body.items[1].filename = "a.png"
    /\ Len(selectedFiles) = 1
    /\ selectedFiles[1].file.name = "a.png"
    /\ status = SUCCESS
    /\ Len(processedFiles) = 1
    /\ processedFiles[1].previewUrl = "data:image/png;base64,AA=="

\* C7: reconciling a well-formed results array never fails and yields exactly
\* one entry per result, the i-th entry named after the i-th result: the order
\* is the order of the results, a result naming no staged file still has its
\* entry, and a staged file named by no result has none.
C7_OneEntryPerResultInResultOrder ==
    [][ LET r == lastEvent'.response
            R == r.body.items
            staged == lastEvent'.staged
        IN  (lastEvent'.kind = "fetchSettles" /\ IsWellFormedSuccess(r)) =>
                /\ status' = SUCCESS
                /\ Len(processedFiles') = Len(R)
                /\ \A i \in 1..Len(R) : processedFiles'[i].file.name = R[i].filename
                /\ \A j \in 1..Len(staged) :
                      (\A i \in 1..Len(R) : R[i].filename /= staged[j].file.name) =>
                          \A i \in 1..Len(processedFiles') :
                              /\ processedFiles'[i].id /= staged[j].id
                              /\ processedFiles'[i].file /= staged[j].file ]_vars

C7_Witness ==
    /\ lastEvent.kind = "fetchSettles"
    /\ status = SUCCESS
    /\ Len(lastEvent.staged) = 2
    /\ lastEvent.staged[1].file.name = "a.png"
    /\ lastEvent.staged[2].file.name = "b.png"
    /\ Len(lastEvent.response.body.items) = 2
    /\ lastEvent.response.body.items[1].filename = "b.png"
    /\ lastEvent.response.body.items[2].filename = "a.png"
    /\ Len(processedFiles) = 2
    /\ processedFiles[1].id = lastEvent.staged[2].id
    /\ processedFiles[2].id = lastEvent.staged[1].id

\* C8: in reconciliation a result whose filename is the name of some staged
\* file yields an entry with the id (and the file) of the first such staged
\* entry; a result that matches none yields an entry whose id is
\* filename + '-' + its 0-based index and whose file is empty.
C8_FirstMatchOrFallbackId ==
    [][ LET r == lastEvent'.response
            R == r.body.items
            staged == lastEvent'.staged
        IN  (lastEvent'.kind = "fetchSettles" /\ IsWellFormedSuccess(r)) =>
                \A i \in 1..Len(R) :
                    LET matches == {k \in 1..Len(staged) : staged[k].file.name = R[i].filename}
                    IN  IF matches /= {}
                        THEN \E k \in matches :
                                /\ \A m \in matches : k <= m
                                /\ processedFiles'[i].id = staged[k].id
                                /\ processedFiles'[i].file = staged[k].file
                        ELSE /\ processedFiles'[i].id = R[i].filename \o "-" \o ToString(i - 1)
                             /\ processedFiles'[i].file.name = R[i].filename
                             /\ processedFiles'[i].file.size = 0 ]_vars

C8_Witness ==
    /\ lastEvent.kind = "fetchSettles"
    /\ status = SUCCESS
    /\ Len(lastEvent.staged) = 2
    /\ lastEvent.staged[1].id = "a.png-1"
    /\ lastEvent.staged[2].id = "a.png-2"
    /\ Len(lastEvent.response.body.items) = 2
    /\ lastEvent.response.body.items[1].filename = "a.png"
    /\ lastEvent.response.body.items[2].filename = "z.png"
    /\ processedFiles[1].id = "a.png-1"
    /\ processedFiles[2].id = "z.png-1"
    /\ processedFiles[2].file.size = 0

\* C9: adding files none of which has a media type beginning with image/
\* leaves selectedFiles, status and error unchanged; whatever the batch, every
\* entry an addition appends is one of the image files of the batch.
C9_OnlyImagesAreStaged ==
    [][ LET list == lastEvent'.files
        IN  IsAddFiles(lastEvent') =>
                /\ (\A i \in 1..Len(list) : ~HasImageType(list[i])) =>
                        (selectedFiles' = selectedFiles /\ status' = status /\ error' = error)
                /\ Len(selectedFiles') >= Len(selectedFiles)
                /\ \A k \in (Len(selectedFiles) + 1)..Len(selectedFiles') :
                        /\ HasImageType(selectedFiles'[k].file)
                        /\ \E i \in 1..Len(list) : list[i] = selectedFiles'[k].file ]_vars

C9_Witness ==
    /\ IsAddFiles(lastEvent)
    /\ lastEvent.handled
    /\ Len(lastEvent.files) = 2
    /\ \A i \in 1..Len(lastEvent.files) : lastEvent.files[i].type = "text/plain"
    /\ Len(selectedFiles) = 1
    /\ status = ERROR

\* C10: an addition that reaches handleFiles leaves the previous entries of
\* selectedFiles in place and in order, and appends after them, in input order,
\* the image files of the batch whose id was not in selectedFiles before.
C10_AppendsNewCandidatesInOrder ==
    [][ LET prev == selectedFiles
            list == lastEvent'.files
            prevIds == {prev[k].id : k \in 1..Len(prev)}
            cand == SelectSeq(list, LAMBDA f :
                        /\ HasImageType(f)
                        /\ (f.name \o "-" \o ToString(f.lastModified)) \notin prevIds)
        IN  (IsAddFiles(lastEvent') /\ lastEvent'.handled) =>
                /\ Len(selectedFiles') = Len(prev) + Len(cand)
                /\ \A k \in 1..Len(prev) : selectedFiles'[k] = prev[k]
                /\ \A i \in 1..Len(cand) :
                      /\ selectedFiles'[Len(prev) + i].file = cand[i]
                      /\ selectedFiles'[Len(prev) + i].id =
                            cand[i].name \o "-" \o ToString(cand[i].lastModified) ]_vars

C10_Witness ==
    /\ IsAddFiles(lastEvent)
    /\ lastEvent.handled
    /\ Len(lastEvent.files) = 2
    /\ lastEvent.files[1].type = "text/plain"
    /\ Len(selectedFiles) = 2
    /\ selectedFiles[1].previewUrl = "blob:1"
    /\ selectedFiles[1].file /= lastEvent.files[2]
    /\ selectedFiles[2].file = lastEvent.files[2]

\* s contains sub as a substring.
Contains(s, sub) ==
    \E i \in 1..(Len(s) - Len(sub) + 1) : SubSeq(s, i, i + Len(sub) - 1) = sub

\* A response with a non-success HTTP status.
IsRejection(r) == r.received /\ (r.status < 200 \/ r.status > 299)

\* A response with a success HTTP status.
IsAccepted(r) == r.received /\ r.status >= 200 /\ r.status <= 299

\* C11 (as stated): when the pending submission completes with a non-success
\* HTTP status and a body that is not JSON, the status becomes Error and the
\* error message contains the numeric status code.
C11_UnparseableBodyNamesStatus ==
    [][ LET r == lastEvent'.response
        IN  (lastEvent'.kind = "fetchSettles" /\ IsRejection(r) /\ r.body.kind = "text") =>
                /\ status' = ERROR
                /\ Contains(error', ToString(r.status)) ]_vars

\* C11 (amended): when the pending submission completes with a non-success
\* HTTP status and a body that is not JSON, the status goes from Processing to
\* Error and the error message is the fixed text
\* "An unknown error occurred on the server.", which names no status code.
C11_UnparseableBodyGivesFixedMessage ==
    [][ LET r == lastEvent'.response
        IN  (lastEvent'.kind = "fetchSettles" /\ IsRejection(r) /\ r.body.kind = "text") =>
                /\ status = PROCESSING
                /\ status' = ERROR
                /\ error' = "An unknown error occurred on the server."
                /\ ~Contains(error', ToString(r.status)) ]_vars

C11_Witness ==
    /\ lastEvent.kind = "fetchSettles"
    /\ lastEvent.response.received
    /\ lastEvent.response.status = 500
    /\ lastEvent.response.body.kind = "text"
    /\ status = ERROR
    /\ error = "An unknown error occurred on the server."

\* A success response whose body is not an array of complete result objects.
IsMalformedSuccess(r) ==
    /\ IsAccepted(r)
    /\ \/ r.body.kind /= "array"
       \/ \E i \in 1..Len(r.body.items) :
             \/ r.body.items[i].filename = Undefined
             \/ r.body.items[i].processed_image_b64 = Undefined
             \/ r.body.items[i].content_type = Undefined

\* C12 (as stated): when the pending submission completes with a success HTTP
\* status and a malformed body (not a JSON array, or an element that lacks
\* filename, processed_image_b64 or content_type), the status becomes Error,
\* not Success, and processedFiles is not replaced.
C12_MalformedBodyFails ==
    [][ (lastEvent'.kind = "fetchSettles" /\ IsMalformedSuccess(lastEvent'.response)) =>
            /\ status' = ERROR
            /\ processedFiles' = processedFiles ]_vars

\* C13 (as stated): every operation that empties selectedFiles (clear
\* selection, reset) releases the preview resources the entries held: after it
\* no object URL created by handleFiles is live.
C13_EmptyingReleasesPreviews ==
    [][ (lastEvent'.kind \in {"clear", "reset"} /\ lastEvent'.handled) =>
            (selectedFiles' = <<>> /\ objectUrls' = {}) ]_vars

\* A submission that failed: no response, a non-success status, or a success
\* status with a malformed body.
IsFailure(r) == ~r.received \/ IsRejection(r) \/ IsMalformedSuccess(r)

\* C14 (as stated): every failed submission (service rejection, malformed
\* response, no response) takes the status from Processing to Error with a
\* message and leaves selectedFiles and processedFiles as they were when the
\* submission started.
C14_FailureStoresNothing ==
    [][ (lastEvent'.kind = "fetchSettles" /\ IsFailure(lastEvent'.response)) =>
            /\ status = PROCESSING
            /\ status' = ERROR
            /\ error' /= Null
            /\ selectedFiles' = lastEvent'.staged
            /\ processedFiles' = processedFiles ]_vars

\* C15: given that every request is eventually answered or fails, every
\* Processing state is followed by Success or Error; while the status stays
\* Processing neither processedFiles nor error nor selectedFiles changes, and
\* the step that leaves Processing is the completion, which sets the status
\* together with processedFiles (Success, no error) or with error (Error,
\* processedFiles untouched).
C15_ProcessingSettlesInOneStep ==
    /\ (status = PROCESSING) ~> (status \in {SUCCESS, ERROR})
    /\ [][ status = PROCESSING =>
              IF status' = PROCESSING
              THEN UNCHANGED <<processedFiles, error, selectedFiles>>
              ELSE /\ lastEvent'.kind = "fetchSettles"
                   /\ \/ /\ status' = SUCCESS
                         /\ error' = Null
                         /\ Len(processedFiles') = Len(lastEvent'.response.body.items)
                      \/ /\ status' = ERROR
                         /\ error' /= Null
                         /\ processedFiles' = processedFiles ]_vars

C15_Witness ==
    /\ lastEvent.kind = "fetchSettles"
    /\ lastEvent.from = PROCESSING
    /\ status = SUCCESS
    /\ error = Null
    /\ Len(processedFiles) = 2

\* C16: a submit in Error with a non-empty selectedFiles goes straight to
\* Processing and discards the error message; in every reachable state an
\* error message is present only if the status is Error.
C16_ErrorMessageOnlyInError ==
    /\ [](error /= Null => status = ERROR)
    /\ [][ (lastEvent'.kind = "submit" /\ status = ERROR /\ Len(selectedFiles) > 0) =>
              /\ lastEvent'.handled
              /\ status' = PROCESSING
              /\ error' = Null
              /\ selectedFiles' = selectedFiles ]_vars

C16_Witness ==
    /\ lastEvent.kind = "submit"
    /\ lastEvent.handled
    /\ lastEvent.from = ERROR
    /\ status = PROCESSING
    /\ error = Null
    /\ Len(selectedFiles) > 0

\* C17: adding files leaves the status, the error message, processedFiles and
\* the pending calls unchanged; in Error the status stays Error with the same
\* message.
C17_AddFilesKeepsStatusAndError ==
    [][ IsAddFiles(lastEvent') =>
            /\ status' = status
            /\ error' = error
            /\ processedFiles' = processedFiles
            /\ calls' = calls ]_vars

C17_Witness ==
    /\ IsAddFiles(lastEvent)
    /\ lastEvent.handled
    /\ lastEvent.from = ERROR
    /\ Len(lastEvent.files) = 1
    /\ Len(selectedFiles) = 2
    /\ selectedFiles[2].file = lastEvent.files[1]
    /\ status = ERROR
    /\ error = "model unavailable"

\* C18 (as stated): in every reachable state the live object URLs are exactly
\* the previewUrls of the entries of selectedFiles (one URL is created for each
\* file that is staged, none for a file that is discarded).
C18_LiveUrlsAreTheStagedPreviews ==
    objectUrls = {selectedFiles[i].previewUrl : i \in 1..Len(selectedFiles)}

\* The events a user issues.
IsUserCommand(e) == e.kind \in {"fileChange", "drop", "dragOver", "dragLeave",
                                "clear", "submit", "reset"}

\* C19: while the status is Processing no user command is handled and none
\* changes the state, the one pending call holds the current selectedFiles,
\* and the completion reconciles against that same selectedFiles.
C19_NothingAcceptedWhileProcessing ==
    /\ [](status = PROCESSING => (Len(calls) = 1 /\ calls[1].files = selectedFiles))
    /\ [][ /\ (status = PROCESSING /\ IsUserCommand(lastEvent')) =>
                 (~lastEvent'.handled /\ UNCHANGED appState)
           /\ lastEvent'.kind = "fetchSettles" =>
                 (lastEvent'.staged = selectedFiles /\ selectedFiles' = selectedFiles) ]_vars

C19_Witness ==
    /\ IsAddFiles(lastEvent)
    /\ ~lastEvent.handled
    /\ lastEvent.from = PROCESSING
    /\ status = PROCESSING
    /\ Len(calls) = 1
    /\ calls[1].files = selectedFiles

\* C20: in every reachable state processedFiles is non-empty only if the
\* status is Success.
C20_ResultsOnlyInSuccess ==
    Len(processedFiles) > 0 => status = SUCCESS

C20_Witness ==
    /\ status = SUCCESS
    /\ Len(processedFiles) = 2
    /\ objectUrls = {"blob:1", "blob:2"}
    /\ Len(selectedFiles) = 1
    /\ selectedFiles[1].previewUrl = "blob:2"

====
